---------------------------- MODULE Spec2Model ----------------------------
(*
  fermipipe: run_analysis.py (run_lightcurve, get_times) and
  combine_lightcurve_results.py, as a state machine.

  One process per lightcurve section executes run_lightcurve on a shared
  output directory.  The analysis library (GTAnalysis: load_roi, lightcurve)
  and the event file are the environment: their outcomes are chosen
  nondeterministically.  Times are integers (MET seconds).
*)
EXTENDS Integers, Sequences, FiniteSets, TLC

(* ------------------------------ bounds ------------------------------ *)
MaxT == 5            \* time values range over 0..MaxT (sectioning alone)
MaxRunT == 4         \* time values range over 0..MaxRunT (full runs)
MaxSections == 3     \* num_sections ranges over 1..MaxSections (or None)
MaxEvents == 3       \* events kept by the pointing cut (sectioning alone)
MaxRunEvents == 2    \* events kept by the pointing cut (full runs)
MaxInitDirs == 2     \* per-bin directories already present in outdir
MaxRestarts == 1     \* the restart counter (a history variable) saturates here
MaxConc == 2         \* sections run as concurrent processes
MaxBins == 2         \* bins per section result file read by the combiner

None == "None"

\* an optional value: Nothing (Python's None) or Some(x)
Nothing == <<>>
Some(x) == <<x>>
Get(opt) == opt[1]

\* num_sections=None (no sectioning) is written 0
NoSections == 0

(* ------------------------------ sequences --------------------------- *)
Range(f) == {f[i] : i \in DOMAIN f}

Min(a, b) == IF a < b THEN a ELSE b

Last(q) == q[Len(q)]

IsPrefix(p, q) == Len(p) <= Len(q) /\ \A i \in 1..Len(p) : p[i] = q[i]

\* the elements of a finite set of integers in increasing order
RECURSIVE SortedSeq(_)
SortedSeq(S) ==
    IF S = {} THEN <<>>
    ELSE LET m == CHOOSE x \in S : \A y \in S : x <= y
         IN  <<m>> \o SortedSeq(S \ {m})

\* strictly increasing sequences over S of length lo..hi
IncSeqs(S, lo, hi) ==
    {SortedSeq(U) : U \in {V \in SUBSET S : Cardinality(V) \in lo..hi}}

\* sequences without repetitions over S of length at most hi
DistinctSeqs(S, hi) ==
    {q \in UNION {[1..n -> S] : n \in 0..hi} :
        \A i, j \in 1..Len(q) : i # j => q[i] # q[j]}

RECURSIVE Concat(_)
Concat(qs) == IF qs = <<>> THEN <<>> ELSE Head(qs) \o Concat(Tail(qs))

(* --------------------- get_times (run_analysis.py) ------------------ *)
\* np.linspace(tmin, tmax, num): num evenly spaced samples, both ends included
\* (used only where the step is integral)
linspace(tmin, tmax, num) ==
    [i \in 1..num |-> tmin + ((i - 1) * (tmax - tmin)) \div (num - 1)]

\* np.arange(tmin, tmax, step): tmin, tmin+step, ... below tmax
arange(tmin, tmax, step) ==
    LET n == IF tmax <= tmin THEN 0 ELSE ((tmax - tmin) + step - 1) \div step
    IN  [i \in 1..n |-> tmin + (i - 1) * step]

\* a fermipy configuration: selection.tmin/tmax and the lightcurve section;
\* an unset time_bins is <<>>, an unset nbins or binsz is 0 (all falsy)
Config(tb, nb, bs, lo, hi) ==
    [time_bins |-> tb, nbins |-> nb, binsz |-> bs, tmin |-> lo, tmax |-> hi]

get_times(fermipy_config) ==
    IF fermipy_config.time_bins # <<>> THEN fermipy_config.time_bins
    ELSE IF fermipy_config.nbins # 0
         THEN linspace(fermipy_config.tmin, fermipy_config.tmax,
                       fermipy_config.nbins + 1)
    ELSE IF fermipy_config.binsz # 0
         THEN arange(fermipy_config.tmin, fermipy_config.tmax,
                     fermipy_config.binsz)
    ELSE <<>>

(* --------------------- sectioning (lines 135-146) ------------------- *)
\* np.array_split(ary, n): the first Len % n pieces hold Len \div n + 1
\* elements, the others Len \div n; piece index i is 0-based
SplitStart(len, n, i) == i * (len \div n) + Min(i, len % n)

array_split(ary, n) ==
    [k \in 1..n |->
        SubSeq(ary, SplitStart(Len(ary), n, k - 1) + 1,
                    SplitStart(Len(ary), n, k))]

\* mutant: the boundary edge of the next section is not appended
SectionTimesNoPad(times, num_sections, section) ==
    IF num_sections = NoSections THEN times
    ELSE array_split(times, num_sections)[section + 1]

SectionTimes(times, num_sections, section) ==
    IF num_sections = NoSections THEN times
    ELSE LET split_times == array_split(times, num_sections)
             selected == split_times[section + 1]
         IN  IF section < num_sections - 1
                /\ Len(split_times[section + 2]) # 0
             THEN Append(selected, split_times[section + 2][1])
             ELSE selected

(* --------------------- no-data periods (lines 186-213) -------------- *)
\* np.amin(times[1:] - times[:-1])
min_bin_size(times) ==
    CHOOSE d \in {times[i + 1] - times[i] : i \in 1..(Len(times) - 1)} :
        \A j \in 1..(Len(times) - 1) : d <= times[j + 1] - times[j]

\* gaps between consecutive kept events that are longer than the smallest bin
get_no_data_periods(times, time_met) ==
    LET idx == {i \in 1..(Len(time_met) - 1) :
                   time_met[i + 1] - time_met[i] > min_bin_size(times)}
        RECURSIVE build(_)
        build(i) == IF i >= Len(time_met) THEN <<>>
                    ELSE IF i \in idx
                         THEN <<<<time_met[i], time_met[i + 1]>>>> \o build(i + 1)
                         ELSE build(i + 1)
    IN  build(1)

\* mutant: only edges strictly inside the period count as encompassed
PeriodTimesStrict(selected, period) ==
    SelectSeq(selected, LAMBDA t : t > period[1] /\ t < period[2])

\* selected_times[(selected_times >= period_start) & (selected_times <= period_end)]
PeriodTimes(selected, period) ==
    SelectSeq(selected, LAMBDA t : t >= period[1] /\ t <= period[2])

\* np.setdiff1d(ar1, ar2, assume_unique=True): ar1 without the values of ar2,
\* in the order of ar1
setdiff1d(ar1, ar2) == SelectSeq(ar1, LAMBDA t : t \notin Range(ar2))

RECURSIVE RemoveNoData(_, _)
RemoveNoData(selected, periods) ==
    IF periods = <<>> THEN selected
    ELSE LET period_times == PeriodTimes(selected, Head(periods))
         IN  IF Len(period_times) = 0
             THEN RemoveNoData(selected, Tail(periods))
             ELSE RemoveNoData(setdiff1d(selected, period_times), Tail(periods))

\* the bins (consecutive edges) of a list of edges, in order
Bins(edges) == [i \in 1..(IF Len(edges) = 0 THEN 0 ELSE Len(edges) - 1) |->
                    <<edges[i], edges[i + 1]>>]


(* --------------------- exceptions (lines 226-246) ------------------- *)
\* the types gta.lightcurve raises with: caught ones, subclasses of caught
\* ones (FileNotFoundError of OSError, NotImplementedError of RuntimeError)
\* and one the except clause does not name
ExcTypes == {"AttributeError", "FileNotFoundError", "RuntimeError",
             "NotImplementedError", "ValueError"}

\* the direct base class, where it matters (IOError is an alias of OSError)
Parent(type) ==
    CASE type = "FileNotFoundError" -> "OSError"
      [] type = "NotImplementedError" -> "RuntimeError"
      [] OTHER -> "Exception"

IsInstance(type, class) == type = class \/ Parent(type) = class

\* except (AttributeError, IOError, OSError, RuntimeError, TypeError,
\*         fits.VerifyError)
CaughtClasses == {"AttributeError", "OSError", "RuntimeError", "TypeError",
                  "VerifyError"}

allowed_runtime_error_starts ==
    << <<"F", "i", "l", "e", " ", "n", "o", "t", " ", "i", "n", " ", "F", "I",
         "T", "S", " ", "o", "r", " ", "R", "o", "o", "t", " ", "f", "o", "r",
         "m", "a", "t">>,
       <<"R", "e", "q", "u", "e", "s", "t", "e", "d", " ", "e", "n", "e", "r",
         "g", "y">>,
       <<"C", "o", "u", "l", "d", " ", "n", "o", "t", " ", "o", "p", "e", "n",
         " ", "F", "I", "T", "S", " ", "e", "x", "t", "e", "n", "s", "i", "o",
         "n">>,
       <<"F", "a", "i", "l", "e", "d", " ", "t", "o", " ", "c", "o", "n", "v",
         "e", "r", "g", "e", " ", "a", "f", "t", "e", "r">>,
       <<"F", "i", "l", "e", " ", "n", "o", "t", " ", "f", "o", "u", "n", "d">>,
       <<"m", "a", "g", "e", " ", "i", "n", " ", "e", "x", "t", "e", "n", "s",
         "i", "o", "n">> >>

\* str(err).startswith(start) for some start of the list
allowed_start(msg) ==
    \E i \in DOMAIN allowed_runtime_error_starts :
        IsPrefix(allowed_runtime_error_starts[i], msg)

\* the messages the library raises with, as character sequences:
\* "File not found.", "Image in extension"
Messages ==
    { <<"F", "i", "l", "e", " ", "n", "o", "t", " ", "f", "o", "u", "n", "d", ".">>,
      <<"I", "m", "a", "g", "e", " ", "i", "n", " ", "e", "x", "t", "e", "n",
        "s", "i", "o", "n">> }

NoErr == [type |-> None, msg |-> <<>>, at |-> None]

Err(type, msg, at) == [type |-> type, msg |-> msg, at |-> at]

\* mutant: the allow-list is applied with isinstance, so to subclasses too
HandlerPcIsInstance(type, msg) ==
    IF ~(\E c \in CaughtClasses : IsInstance(type, c)) THEN "raised"
    ELSE IF IsInstance(type, "RuntimeError") /\ ~allowed_start(msg) THEN "raised"
    ELSE "recover"

\* where an exception of gta.lightcurve leads: out of the function ("raised")
\* or into the recovery ("recover")
HandlerPc(type, msg) ==
    IF ~(\E c \in CaughtClasses : IsInstance(type, c)) THEN "raised"
    ELSE IF type = "RuntimeError" /\ ~allowed_start(msg) THEN "raised"
    ELSE "recover"

(* --------------------- load_roi retries (lines 218-224) ------------- *)
LoadAttempts == 3

\* mutant: a successful load does not leave the loop
LoadNextPcNoBreak(outcome, attempts) ==
    IF outcome = "other" THEN "raised"
    ELSE IF attempts >= LoadAttempts THEN "lightcurve" ELSE "load"

\* mutant: the load raises once the attempts are used up
LoadNextPcRaise(outcome, attempts) ==
    IF outcome = "ok" THEN "lightcurve"
    ELSE IF outcome = "other" THEN "raised"
    ELSE IF attempts >= LoadAttempts THEN "raised" ELSE "load"

\* after the attempt numbered `attempts` ended with `outcome`:
\* break on success, propagate anything but RuntimeError, else sleep and
\* retry until the range is used up
LoadNextPc(outcome, attempts) ==
    IF outcome = "ok" THEN "lightcurve"
    ELSE IF outcome = "other" THEN "raised"
    ELSE IF attempts >= LoadAttempts THEN "lightcurve" ELSE "load"

(* --------------------- recovery (lines 250-265) --------------------- *)
\* selected(bin_dir): every edge in the directory's name is a selected time
selected(bin_dir, selected_times) ==
    \A i \in DOMAIN bin_dir : bin_dir[i] \in Range(selected_times)

\* mutant: the newest lightcurve_* directory, whatever its section
last_bin_dir_any(bin_dirs, selected_times) == Last(bin_dirs)

\* max(selected_bin_dirs, key=os.path.getmtime); bin_dirs is kept in
\* increasing order of modification time
last_bin_dir(bin_dirs, selected_times) ==
    Last(SelectSeq(bin_dirs, LAMBDA d : selected(d, selected_times)))

\* shutil.rmtree
rmtree(bin_dirs, bin_dir) == SelectSeq(bin_dirs, LAMBDA d : d # bin_dir)

\* the library writes into a bin's directory: it becomes the newest
Touch(bin_dirs, bin_dir) == Append(rmtree(bin_dirs, bin_dir), bin_dir)

RECURSIVE TouchAll(_, _)
TouchAll(bin_dirs, bins) ==
    IF bins = <<>> THEN bin_dirs
    ELSE TouchAll(Touch(bin_dirs, Head(bins)), Tail(bins))

(* ------------------------------ state ------------------------------- *)
Sections == 0..(MaxSections - 1)

\* the output files gta.lightcurve writes: {target}_lightcurve.npy / .fits
Exts == {"npy", "fits"}

VARIABLES
    num_sections,      \* pipeline_config['num_sections'] (None: no sectioning)
    time_met,          \* event times within 50 degrees of the pointing
    procs,             \* the sections whose process runs
    pc,                \* per section: position in run_lightcurve
    fermipy_config,    \* per section: the config argument of the invocation
    original_config,   \* per section: its deep copy taken on entry
    no_data_periods,   \* per section: the argument (None on the first call)
    selected_times,    \* per section: the edges handed to the analysis
    load_log,          \* per section: outcomes of load_roi in this invocation
    roi_loaded,        \* per section: load_roi succeeded in this invocation
    err,               \* per section: the exception in flight or raised
    first_selected,    \* history: selected_times of the first invocation
    restarts,          \* history: restarts so far, saturating at MaxRestarts
    bin_dirs,          \* outdir/lightcurve_*: <<edge, edge>>, oldest first
    outfiles,          \* outdir/*_lightcurve.ext: the section whose result it holds
    globbed,           \* per section: the files its glob returned, not yet renamed
    renamed,           \* per section: {prefix}_lightcurve_{section}.ext
    section_files,     \* combiner: the section files on disk (None: missing)
    combined_results,  \* combiner: the dictionary being built
    comb_i,            \* combiner: the loop index
    comb_pc            \* combiner: position

procVars == <<pc, fermipy_config, original_config, no_data_periods,
              selected_times, load_log, roi_loaded, err, first_selected,
              restarts, globbed>>
fsVars == <<bin_dirs, outfiles, renamed>>
inputVars == <<num_sections, time_met, procs>>
combVars == <<section_files, combined_results, comb_i, comb_pc>>
vars == <<inputVars, procVars, fsVars, combVars>>


(* ------------------------------ inputs ------------------------------ *)
\* configurations over the times 0..T, starting at 0, with explicit
\* time_bins, with nbins (an integral step) and with binsz
Configs(T) ==
    {Config(<<0>> \o tb, 0, 0, 0, Last(tb)) : tb \in IncSeqs(1..T, 1, T)}
    \cup {Config(<<>>, nb, 0, 0, hi) : nb \in 1..T, hi \in 1..T}
    \cup {Config(<<>>, 0, bs, 0, hi) : bs \in 1..T, hi \in 1..T}

ValidConfig(c) ==
    /\ Len(get_times(c)) >= 2
    /\ c.nbins # 0 => (c.tmax - c.tmin) % c.nbins = 0

SectionsOf(n) == IF n = NoSections THEN {0} ELSE 0..(n - 1)

\* the edges section s hands to the analysis
FinalTimes(c, n, s, events) ==
    RemoveNoData(SectionTimes(get_times(c), n, s),
                 get_no_data_periods(get_times(c), events))

\* the per-bin directories the sections of one analysis create
AllBinDirs(c, n, events) ==
    UNION {Range(Bins(FinalTimes(c, n, s, events))) : s \in SectionsOf(n)}

Setup(c, n, running, events, dirs) ==
    /\ num_sections = n
    /\ time_met = events
    /\ procs = running
    /\ pc = [s \in Sections |-> IF s \in running THEN "start" ELSE "idle"]
    /\ fermipy_config = [s \in Sections |-> c]
    /\ original_config = [s \in Sections |-> c]
    /\ no_data_periods = [s \in Sections |-> Nothing]
    /\ selected_times = [s \in Sections |-> <<>>]
    /\ load_log = [s \in Sections |-> <<>>]
    /\ roi_loaded = [s \in Sections |-> FALSE]
    /\ err = [s \in Sections |-> NoErr]
    /\ first_selected = [s \in Sections |-> Nothing]
    /\ restarts = [s \in Sections |-> 0]
    /\ bin_dirs = dirs
    /\ outfiles = [e \in Exts |-> Nothing]
    /\ globbed = [s \in Sections |-> {}]
    /\ renamed = [s \in Sections |-> [e \in Exts |-> Nothing]]
    /\ section_files = <<>>
    /\ combined_results = <<>>
    /\ comb_i = 0
    /\ comb_pc = "idle"

\* one section of an analysis is run, in an output directory that holds no
\* per-bin directory yet
\* the full runs use the configurations of each form with the most edges
RunConfigs ==
    {c \in Configs(MaxRunT) :
        /\ ValidConfig(c)
        /\ Len(get_times(c)) >= MaxRunT
        /\ c.time_bins # <<>> => Len(c.time_bins) = MaxRunT + 1}

Init ==
    \E c \in RunConfigs :
    \E n \in {NoSections} \cup (1..MaxSections) :
    \E events \in IncSeqs(0..MaxRunT, 0, MaxRunEvents) :
    \E s \in SectionsOf(n) :
        Setup(c, n, {s}, events, <<>>)

(* ------------------------------ run_lightcurve ---------------------- *)
\* lines 132-216: copy the config, compute the section's edges, drop the
\* edges inside no-data periods, overwrite time_bins, build the analysis
Begin(s) ==
    /\ pc[s] = "start"
    /\ LET times == get_times(fermipy_config[s])
           periods == IF no_data_periods[s] = Nothing
                      THEN get_no_data_periods(times, time_met)
                      ELSE Get(no_data_periods[s])
           sel == RemoveNoData(SectionTimes(times, num_sections, s), periods)
       IN  /\ original_config' = [original_config EXCEPT ![s] = fermipy_config[s]]
           /\ no_data_periods' = [no_data_periods EXCEPT ![s] = Some(periods)]
           /\ selected_times' = [selected_times EXCEPT ![s] = sel]
           /\ fermipy_config' = [fermipy_config EXCEPT ![s].time_bins = sel]
           /\ first_selected' = [first_selected EXCEPT ![s] =
                                    IF @ = Nothing THEN Some(sel) ELSE @]
    /\ roi_loaded' = [roi_loaded EXCEPT ![s] = FALSE]
    /\ pc' = [pc EXCEPT ![s] = "load"]
    /\ UNCHANGED <<load_log, err, restarts, globbed, inputVars, fsVars, combVars>>

\* lines 218-224: one pass of the retry loop around gta.load_roi
LoadRoi(s, outcome) ==
    /\ pc[s] = "load"
    /\ load_log' = [load_log EXCEPT ![s] = Append(@, outcome)]
    /\ roi_loaded' = [roi_loaded EXCEPT ![s] = (outcome = "ok")]
    /\ pc' = [pc EXCEPT ![s] = LoadNextPc(outcome, Len(load_log[s]) + 1)]
    /\ err' = [err EXCEPT ![s] =
                  IF outcome = "other" THEN Err("OSError", <<>>, "load") ELSE @]
    /\ UNCHANGED <<fermipy_config, original_config, no_data_periods,
                   selected_times, first_selected, restarts, globbed,
                   inputVars, fsVars, combVars>>

LoadOk(s) == LoadRoi(s, "ok")

LoadRuntimeError(s) == LoadRoi(s, "RuntimeError")

LoadOtherError(s) == LoadRoi(s, "other")

\* line 227, gta.lightcurve returns: every bin's directory was written, then
\* the result files
LightcurveOk(s) ==
    /\ pc[s] = "lightcurve"
    /\ bin_dirs' = TouchAll(bin_dirs, Bins(selected_times[s]))
    /\ outfiles' = [e \in Exts |-> Some(s)]
    /\ pc' = [pc EXCEPT ![s] = IF num_sections # NoSections THEN "rename" ELSE "done"]
    /\ UNCHANGED <<fermipy_config, original_config, no_data_periods,
                   selected_times, load_log, roi_loaded, err, first_selected,
                   restarts, globbed, renamed, inputVars, combVars>>

\* lines 226-246, gta.lightcurve raises after writing the first k bins
LightcurveRaise(s) ==
    /\ pc[s] = "lightcurve"
    /\ \E k \in 0..Len(Bins(selected_times[s])), type \in ExcTypes, msg \in Messages :
        /\ bin_dirs' = TouchAll(bin_dirs, SubSeq(Bins(selected_times[s]), 1, k))
        /\ err' = [err EXCEPT ![s] = Err(type, msg, "lightcurve")]
        /\ pc' = [pc EXCEPT ![s] = HandlerPc(type, msg)]
    /\ UNCHANGED <<fermipy_config, original_config, no_data_periods,
                   selected_times, load_log, roi_loaded, first_selected,
                   restarts, globbed, outfiles, renamed, inputVars,
                   combVars>>

\* lines 250-265: remove the newest directory of this section's bins;
\* max() of no directory raises ValueError
Recover(s) ==
    /\ pc[s] = "recover"
    /\ IF \E i \in DOMAIN bin_dirs : selected(bin_dirs[i], selected_times[s])
       THEN /\ bin_dirs' = rmtree(bin_dirs, last_bin_dir(bin_dirs, selected_times[s]))
            /\ err' = [err EXCEPT ![s] = NoErr]
            /\ pc' = [pc EXCEPT ![s] = "restart"]
       ELSE /\ err' = [err EXCEPT ![s] = Err("ValueError", <<>>, "recover")]
            /\ pc' = [pc EXCEPT ![s] = "raised"]
            /\ UNCHANGED bin_dirs
    /\ UNCHANGED <<fermipy_config, original_config, no_data_periods,
                   selected_times, load_log, roi_loaded, first_selected,
                   restarts, globbed, outfiles, renamed, inputVars, combVars>>

\* mutant: the restart is given the config whose time_bins was overwritten
RestartConfigOverwritten(s) == fermipy_config[s]

\* the config the restart is called with
RestartConfig(s) == original_config[s]

\* lines 269-270: return run_lightcurve(original_config, prefix,
\* num_sections, section, no_data_periods)
Restart(s) ==
    /\ pc[s] = "restart"
    /\ fermipy_config' = [fermipy_config EXCEPT ![s] = RestartConfig(s)]
    /\ restarts' = [restarts EXCEPT ![s] = Min(@ + 1, MaxRestarts)]
    /\ load_log' = [load_log EXCEPT ![s] = <<>>]
    /\ roi_loaded' = [roi_loaded EXCEPT ![s] = FALSE]
    /\ pc' = [pc EXCEPT ![s] = "start"]
    /\ UNCHANGED <<original_config, no_data_periods, selected_times, err,
                   first_selected, globbed, inputVars, fsVars, combVars>>

\* line 274: glob *_lightcurve.*
Glob(s) ==
    /\ pc[s] = "rename"
    /\ globbed' = [globbed EXCEPT ![s] = {e \in Exts : outfiles[e] # Nothing}]
    /\ pc' = [pc EXCEPT ![s] = IF globbed'[s] = {} THEN "done" ELSE "renaming"]
    /\ UNCHANGED <<fermipy_config, original_config, no_data_periods,
                   selected_times, load_log, roi_loaded, err, first_selected,
                   restarts, inputVars, fsVars, combVars>>

\* lines 275-278: os.rename of one globbed file to
\* {prefix}_lightcurve_{section}.{ext}; a file gone since raises
Rename(s) ==
    /\ pc[s] = "renaming"
    /\ \E e \in globbed[s] :
        IF outfiles[e] # Nothing
        THEN /\ renamed' = [renamed EXCEPT ![s][e] = outfiles[e]]
             /\ outfiles' = [outfiles EXCEPT ![e] = Nothing]
             /\ globbed' = [globbed EXCEPT ![s] = @ \ {e}]
             /\ pc' = [pc EXCEPT ![s] = IF globbed'[s] = {} THEN "done" ELSE "renaming"]
             /\ err' = err
        ELSE /\ err' = [err EXCEPT ![s] = Err("FileNotFoundError", <<>>, "rename")]
             /\ pc' = [pc EXCEPT ![s] = "raised"]
             /\ UNCHANGED <<renamed, outfiles, globbed>>
    /\ UNCHANGED <<fermipy_config, original_config, no_data_periods,
                   selected_times, load_log, roi_loaded, first_selected,
                   restarts, bin_dirs, inputVars, combVars>>

Next ==
    \/ \E s \in procs : Begin(s)
    \/ \E s \in procs : LoadOk(s)
    \/ \E s \in procs : LoadRuntimeError(s)
    \/ \E s \in procs : LoadOtherError(s)
    \/ \E s \in procs : LightcurveOk(s)
    \/ \E s \in procs : LightcurveRaise(s)
    \/ \E s \in procs : Recover(s)
    \/ \E s \in procs : Restart(s)
    \/ \E s \in procs : Glob(s)
    \/ \E s \in procs : Rename(s)

Spec == Init /\ [][Next]_vars


\* the lists of kept events in which every interval between two events is
\* a no-data period (an interval that is none has no effect)
GapEvents(c, T, max) ==
    {e \in IncSeqs(0..T, 0, max) :
        e = <<>> \/ Len(get_no_data_periods(get_times(c), e)) = Len(e) - 1}

\* one section of an analysis is run, in an output directory that holds
\* per-bin directories of earlier runs of any section
InitDirs ==
    \E c \in {x \in RunConfigs : x.nbins # 0} :
    \E n \in {NoSections} \cup (1..MaxSections) :
    \E events \in GapEvents(c, MaxRunT, MaxRunEvents) :
    \E s \in SectionsOf(n) :
    \E dirs \in DistinctSeqs(AllBinDirs(c, n, events), MaxInitDirs) :
        Setup(c, n, {s}, events, dirs)

SpecDirs == InitDirs /\ [][Next]_vars

(* ------------------------------ properties -------------------------- *)
\* the exception is one the except clause of line 228 catches
Caught(e) == \E c \in CaughtClasses : IsInstance(e.type, c)

AllRuntimeErrors == [i \in 1..LoadAttempts |-> "RuntimeError"]

\* the per-bin directories of the sections other than s
OtherSectionDirs(s) ==
    UNION {Range(Bins(FinalTimes(original_config[s], num_sections, t, time_met))) :
              t \in SectionsOf(num_sections) \ {s}}

\* C3 as stated: whatever the type, the recovery is entered only with a
\* message that starts with an allow-listed prefix
C3_RecoverOnlyAllowListed ==
    \A s \in Sections : pc[s] = "recover" => allowed_start(err[s].msg)

\* C3 amended: an exception of gta.lightcurve enters the recovery exactly
\* when the except clause catches it and, if its type is RuntimeError itself,
\* its message starts with an allow-listed prefix (a caught exception of any
\* other type, a subclass of RuntimeError included, is recovered whatever its
\* message); every other exception leaves run_lightcurve with no directory
\* removed, and nothing follows it
C3_RecoverByTypeThenPrefix ==
    [][\A s \in Sections :
          /\ (pc[s] = "lightcurve" /\ pc'[s] = "recover") =>
                /\ Caught(err'[s])
                /\ err'[s].type = "RuntimeError" => allowed_start(err'[s].msg)
          /\ (pc[s] = "lightcurve" /\ pc'[s] = "raised") =>
                /\ ~Caught(err'[s])
                   \/ (err'[s].type = "RuntimeError" /\ ~allowed_start(err'[s].msg))
                /\ Range(bin_dirs) \subseteq Range(bin_dirs')
          /\ pc[s] = "raised" => pc'[s] = "raised"]_vars

C3_Witness ==
    \E s \in Sections :
        /\ pc[s] = "recover"
        /\ err[s].type = "NotImplementedError"
        /\ ~allowed_start(err[s].msg)

\* C4: in one invocation load_roi is called at most 3 times, and every call
\* but the last one raised RuntimeError
C4_LoadAtMostThreeTimes ==
    \A s \in Sections :
        /\ Len(load_log[s]) <= 3
        /\ \A i \in 1..(Len(load_log[s]) - 1) : load_log[s][i] = "RuntimeError"

C4_Witness ==
    \E s \in Sections : load_log[s] = <<"RuntimeError", "RuntimeError", "ok">>

\* C7: a recovery round removes exactly one directory, the newest of those
\* whose edges are all selected times of the section; it is no per-bin
\* directory of another section, every other directory keeps its place, and
\* the restart is entered only from such a removal
C7_RecoveryRemovesNewestOwnDir ==
    [][\A s \in Sections :
          /\ (pc[s] = "recover" /\ pc'[s] = "restart") =>
                \E i \in DOMAIN bin_dirs :
                    /\ selected(bin_dirs[i], selected_times[s])
                    /\ \A j \in DOMAIN bin_dirs :
                           j > i => ~selected(bin_dirs[j], selected_times[s])
                    /\ bin_dirs[i] \notin OtherSectionDirs(s)
                    /\ bin_dirs' = SubSeq(bin_dirs, 1, i - 1)
                                   \o SubSeq(bin_dirs, i + 1, Len(bin_dirs))
          /\ (pc'[s] = "restart" /\ pc[s] # "restart") => pc[s] = "recover"
          /\ (pc'[s] = "start" /\ pc[s] # "start") => pc[s] = "restart"]_vars

\* a recovery has removed a directory although a directory of another
\* section is the newest of all, and an older one of the section remains
C7_Witness ==
    \E s \in Sections :
        /\ pc[s] = "restart"
        /\ bin_dirs # <<>>
        /\ Last(bin_dirs) \in OtherSectionDirs(s)
        /\ \E i \in DOMAIN bin_dirs : selected(bin_dirs[i], selected_times[s])

\* C9: in every invocation, restarts included, the selected time bins are
\* those of the first invocation
C9_RestartSelectsSameBins ==
    \A s \in Sections :
        pc[s] \notin {"idle", "start"} => first_selected[s] = Some(selected_times[s])

\* a restarted invocation has selected its bins, fewer than the config's edges
C9_Witness ==
    \E s \in Sections :
        /\ restarts[s] >= 1
        /\ pc[s] = "lightcurve"
        /\ selected_times[s] # <<>>
        /\ Len(selected_times[s]) < Len(get_times(original_config[s]))

\* C10: after 3 loads that raised RuntimeError nothing is raised for the
\* load: the invocation is at, or past, the call of gta.lightcurve, with no
\* ROI loaded
C10_FailedLoadsAreSwallowed ==
    \A s \in Sections :
        load_log[s] = AllRuntimeErrors =>
            /\ ~roi_loaded[s]
            /\ pc[s] \in {"lightcurve", "recover", "restart", "rename",
                          "renaming", "done", "raised"}
            /\ pc[s] = "raised" => err[s].at \in {"lightcurve", "recover", "rename"}

\* gta.lightcurve was invoked, and returned, after 3 failed loads
C10_Witness ==
    \E s \in Sections :
        /\ load_log[s] = AllRuntimeErrors
        /\ pc[s] = "done"
        /\ ~roi_loaded[s]


(* --------------------- the sectioning of all sections --------------- *)
\* every section of an analysis computes its time bins (lines 132-213), for
\* every configuration and every list of kept events
InitBins ==
    \E c \in {x \in Configs(MaxT) : ValidConfig(x)} :
    \E n \in {NoSections} \cup (1..MaxSections) :
    \E events \in IncSeqs(0..MaxT, 0, MaxEvents) :
        Setup(c, n, SectionsOf(n), events, <<>>)

NextBins == \E s \in procs : Begin(s)

SpecBins == InitBins /\ [][NextBins]_vars

Computed(s) == s \in procs /\ pc[s] # "start"

\* (section, position) pairs at which the edges a, b are consecutive
Occurrences(a, b) ==
    {x \in UNION {{<<s, j>> : j \in 1..(Len(selected_times[s]) - 1)} : s \in procs} :
        /\ selected_times[x[1]][x[2]] = a
        /\ selected_times[x[1]][x[2] + 1] = b}

\* the bin and the period share more than a point
Overlaps(bin, period) == bin[1] < period[2] /\ period[1] < bin[2]

\* C1: without no-data periods, a section ends on the first edge of the next
\* section when that one is not empty, and once all sections are computed
\* every bin of the full edge array is a pair of consecutive edges of exactly
\* one section
C1_SectionsKeepEveryBin ==
    /\ \A s \in procs :
          (/\ Computed(s) /\ no_data_periods[s] = Some(<<>>)
           /\ s + 1 \in procs /\ Computed(s + 1) /\ selected_times[s + 1] # <<>>) =>
              /\ selected_times[s] # <<>>
              /\ Last(selected_times[s]) = Head(selected_times[s + 1])
    /\ (\A s \in procs : Computed(s) /\ no_data_periods[s] = Some(<<>>)) =>
          \A s \in procs :
          \A k \in 1..(Len(get_times(original_config[s])) - 1) :
              Cardinality(Occurrences(get_times(original_config[s])[k],
                                      get_times(original_config[s])[k + 1])) = 1

\* three sections, the last one not empty, are computed without no-data periods
C1_Witness ==
    /\ num_sections = 3
    /\ \A s \in procs : Computed(s) /\ no_data_periods[s] = Some(<<>>)
    /\ selected_times[2] # <<>>
    /\ Len(selected_times[0]) > 2

\* C2 as stated: no bin of the final time_bins overlaps a no-data period
C2_NoBinOverlapsNoData ==
    \A s \in procs :
        Computed(s) =>
            \A i \in DOMAIN Bins(selected_times[s]) :
            \A j \in DOMAIN Get(no_data_periods[s]) :
                ~Overlaps(Bins(selected_times[s])[i], Get(no_data_periods[s])[j])

\* C2 amended: the final time_bins are the section's edges that lie in no
\* no-data period (bounds included), in order; so no bin starts or ends
\* inside a period
C2_NoEdgeInsideNoData ==
    \A s \in procs :
        Computed(s) =>
            /\ \A i \in DOMAIN selected_times[s] :
               \A j \in DOMAIN Get(no_data_periods[s]) :
                   ~(/\ selected_times[s][i] >= Get(no_data_periods[s])[j][1]
                     /\ selected_times[s][i] <= Get(no_data_periods[s])[j][2])
            /\ selected_times[s] =
                  SelectSeq(SectionTimes(get_times(original_config[s]), num_sections, s),
                            LAMBDA t : \A j \in DOMAIN Get(no_data_periods[s]) :
                                ~(/\ t >= Get(no_data_periods[s])[j][1]
                                  /\ t <= Get(no_data_periods[s])[j][2]))

\* a no-data period removed an edge of the section that lies between two
\* edges that remain: the bins around it were merged
C2_Witness ==
    \E s \in procs :
        /\ Computed(s)
        /\ \E j \in DOMAIN Get(no_data_periods[s]) :
           \E t \in Range(SectionTimes(get_times(original_config[s]),
                                       num_sections, s)) :
              /\ t \in Range(PeriodTimes(<<t>>, Get(no_data_periods[s])[j]))
              /\ t \notin Range(selected_times[s])
              /\ \E a, b \in Range(selected_times[s]) : a < t /\ t < b


(* --------------------- the sections as concurrent processes --------- *)
\* all sections of one analysis run at once, as separate processes, on an
\* output directory that is empty at first
InitConc ==
    \E c \in {x \in RunConfigs : x.nbins # 0} :
    \E n \in 1..MaxConc :
        Setup(c, n, SectionsOf(n), <<>>, <<>>)

SpecConc == InitConc /\ [][Next]_vars

\* C5: once every section has finished, each section's renamed files exist
\* and hold the section's own result
C5_RenamedFilesHoldOwnResult ==
    (num_sections # NoSections /\ \A s \in procs : pc[s] = "done") =>
        \A s \in procs : \A e \in Exts : renamed[s][e] = Some(s)


(* --------------------- termination ---------------------------------- *)
\* a process that can take a step eventually takes one
LiveSpec == Spec /\ WF_vars(Next)

non_array_keys == {"name", "file", "ts_var", "config"}

\* array-valued keys of a lightcurve result
ArrayKeys == {"tmin", "flux"}

\* the result file of section i whose bins start at the times tmin
Result(i, tmin) ==
    [k \in ArrayKeys \cup non_array_keys |->
        CASE k = "tmin" -> tmin
          [] k = "flux" -> [j \in DOMAIN tmin |-> 10 * (i + 1) + tmin[j]]
          [] k = "name" -> "target"
          [] k = "file" -> <<"lightcurve", i>>
          [] k = "ts_var" -> i + 100
          [] OTHER -> <<"config", Len(tmin)>>]

\* mutant: the new section's array is put in front
MergeKeyFront(combined, key, value) ==
    IF key \in non_array_keys
    THEN IF key \notin DOMAIN combined THEN <<value>>
         ELSE Append(combined[key], value)
    ELSE IF key \notin DOMAIN combined THEN value
         ELSE value \o combined[key]

\* lines 32-42: the value of one key after a section's value is merged in
MergeKey(combined, key, value) ==
    IF key \in non_array_keys
    THEN IF key \notin DOMAIN combined THEN <<value>>
         ELSE Append(combined[key], value)
    ELSE IF key \notin DOMAIN combined THEN value
         ELSE combined[key] \o value

InitCombine ==
    /\ \E n \in 1..MaxSections :
        /\ num_sections = n
        /\ \E tm \in [0..(n - 1) -> {Nothing} \cup
                          {Some(tmin) : tmin \in IncSeqs(0..MaxBins, 0, MaxBins)}] :
              section_files = [i \in 0..(n - 1) |->
                                  IF tm[i] = Nothing THEN Nothing
                                  ELSE Some(Result(i, Get(tm[i])))]
    /\ combined_results = <<>>
    /\ comb_i = 0
    /\ comb_pc = "loop"
    /\ time_met = <<>>
    /\ procs = {}
    /\ pc = [s \in Sections |-> "idle"]
    /\ fermipy_config = [s \in Sections |-> Config(<<>>, 0, 0, 0, 0)]
    /\ original_config = [s \in Sections |-> Config(<<>>, 0, 0, 0, 0)]
    /\ no_data_periods = [s \in Sections |-> Nothing]
    /\ selected_times = [s \in Sections |-> <<>>]
    /\ load_log = [s \in Sections |-> <<>>]
    /\ roi_loaded = [s \in Sections |-> FALSE]
    /\ err = [s \in Sections |-> NoErr]
    /\ first_selected = [s \in Sections |-> Nothing]
    /\ restarts = [s \in Sections |-> 0]
    /\ bin_dirs = <<>>
    /\ outfiles = [e \in Exts |-> Nothing]
    /\ globbed = [s \in Sections |-> {}]
    /\ renamed = [s \in Sections |-> [e \in Exts |-> Nothing]]

\* np.load of section i's file ({prefix}_lightcurve_{i}.npy)
SectionResults(i) == Get(section_files[i])

\* lines 22-42, the file of section comb_i is there: its values are merged in
CombineLoad ==
    /\ comb_pc = "loop"
    /\ comb_i < num_sections
    /\ section_files[comb_i] # Nothing
    /\ combined_results' =
          [k \in DOMAIN combined_results \cup DOMAIN SectionResults(comb_i) |->
              IF k \in DOMAIN SectionResults(comb_i)
              THEN MergeKey(combined_results, k, SectionResults(comb_i)[k])
              ELSE combined_results[k]]
    /\ comb_i' = comb_i + 1
    /\ UNCHANGED <<comb_pc, section_files, inputVars, procVars, fsVars>>

\* lines 25-27, np.load raises IOError: continue
CombineSkip ==
    /\ comb_pc = "loop"
    /\ comb_i < num_sections
    /\ section_files[comb_i] = Nothing
    /\ comb_i' = comb_i + 1
    /\ UNCHANGED <<comb_pc, combined_results, section_files, inputVars,
                   procVars, fsVars>>

\* lines 44-45: np.save of the combined dictionary
CombineSave ==
    /\ comb_pc = "loop"
    /\ comb_i = num_sections
    /\ comb_pc' = "saved"
    /\ UNCHANGED <<comb_i, combined_results, section_files, inputVars,
                   procVars, fsVars>>

NextCombine == CombineLoad \/ CombineSkip \/ CombineSave

SpecCombine == InitCombine /\ [][NextCombine]_vars

\* the sections below i whose file exists, in increasing order
RECURSIVE Present(_)
Present(i) ==
    IF i = 0 THEN <<>>
    ELSE IF section_files[i - 1] # Nothing THEN Append(Present(i - 1), i - 1)
    ELSE Present(i - 1)

\* C6: after the sections below comb_i (all of them, once saved), the value
\* of an array key is the concatenation of the present sections' arrays in
\* increasing section order, the value of each of 'name', 'file', 'ts_var',
\* 'config' is the list of the present sections' values in that order, and a
\* missing file contributes nothing and does not stop the loop
C6_CombinedIsConcatenation ==
    /\ comb_pc = "saved" => comb_i = num_sections
    /\ comb_pc \in {"loop", "saved"} =>
        LET present == Present(comb_i)
        IN  IF present = <<>> THEN DOMAIN combined_results = {}
            ELSE /\ DOMAIN combined_results = ArrayKeys \cup non_array_keys
                 /\ \A k \in ArrayKeys :
                       combined_results[k] =
                           Concat([j \in DOMAIN present |-> SectionResults(present[j])[k]])
                 /\ \A k \in non_array_keys :
                       combined_results[k] =
                           [j \in DOMAIN present |-> SectionResults(present[j])[k]]

\* three sections were combined, the middle one's file missing, the others
\* holding bins
C6_Witness ==
    /\ comb_pc = "saved"
    /\ num_sections = 3
    /\ section_files[1] = Nothing
    /\ section_files[0] # Nothing /\ Len(SectionResults(0)["tmin"]) = 2
    /\ section_files[2] # Nothing /\ Len(SectionResults(2)["tmin"]) >= 1

=============================================================================
